---- MODULE Spec2Model ----
(***************************************************************************)
(* A model of SudokuSolver (src/main.py): the constraint checker, the two  *)
(* cell selectors, the recursive backtracking search with its deadline,    *)
(* the board validator, measure_performance and compare_algorithms.        *)
(*                                                                         *)
(* Cell addresses are 0-based as in the source; a board is a sequence of   *)
(* rows, so board[i][j] of the source is Cell(b, i, j) here.               *)
(***************************************************************************)
EXTENDS Integers, Sequences, FiniteSets

VARIABLES
    pc,                  \* "new" | "idle" | "search" | "done" | "compare": position of the caller
    size,                \* self.size
    subgrid_size,        \* self.subgrid_size
    recursive_calls,     \* self.recursive_calls
    start_time,          \* self.start_time
    time_limit_exceeded, \* self.time_limit_exceeded
    timeout,             \* self.timeout
    cmp,                 \* "none" | "first" | "second": the solve compare_algorithms is at
    now,                 \* the wall clock read by time.time()
    given,               \* the grid as it was handed to the public call under way
    orig,                \* parameter `board` of measure_performance / validate_board
    use_mrv,             \* parameter use_mrv of measure_performance
    board,               \* board_copy, the grid the search mutates in place
    stack,               \* the active invocations of solve_with_mrv / solve_simple
    ret,                 \* "none" | "call" | "true" | "false": call pending / value just returned
    lastEntry,           \* the grid at entry of the invocation that returned last (history)
    abort,               \* the grid when the deadline was first seen exceeded (history)
    result,              \* the triple returned by measure_performance
    vres,                \* result of the latest validate_board call
    vgrid                \* the grid handed to that call, as it was before the call

vars == <<pc, size, subgrid_size, recursive_calls, start_time, time_limit_exceeded,
          timeout, cmp, now, given, orig, use_mrv, board, stack, ret, lastEntry, abort, result,
          vres, vgrid>>

(***************************************************************************)
(* Sizes and bounds                                                        *)
(***************************************************************************)
\* The grid size of the solver under search: SudokuSolver(4) of the 4x4 test.
N == 4
\* The default deadline (self.timeout = 10), in clock ticks.
Timeout == 1
\* The deadline compare_algorithms sets (self.timeout = 30), in clock ticks.
CompareTimeout == 3 * Timeout
\* The latest clock reading at which a public call is still begun.
MaxClock == 2
\* The number of leading cells (row-major) the input family varies freely.
MaxWindow == 2
\* The largest size handed to the constructor.
MaxSize == 100

Values == (0 - 1) .. (N + 1)

(***************************************************************************)
(* Grid helpers                                                            *)
(***************************************************************************)
Cell(b, i, j) == b[i + 1][j + 1]

SetCell(b, i, j, v) == [b EXCEPT ![i + 1][j + 1] = v]

Min(a, b) == IF a < b THEN a ELSE b

(***************************************************************************)
(* __init__                                                                *)
(***************************************************************************)
\* int(size ** 0.5): the integer part of the square root.
ISqrt(n) == CHOOSE r \in 0 .. n : r * r <= n /\ (r + 1) * (r + 1) > n

(***************************************************************************)
(* is_valid                                                                *)
(***************************************************************************)
\* is_valid without its subgrid scan.
IsValidNoBox(b, row, col, num) ==
    /\ \A j \in 0 .. size - 1 : ~(Cell(b, row, j) = num /\ j # col)
    /\ \A i \in 0 .. size - 1 : ~(Cell(b, i, col) = num /\ i # row)

\* is_valid without its column scan.
IsValidNoColumn(b, row, col, num) ==
    /\ \A j \in 0 .. size - 1 : ~(Cell(b, row, j) = num /\ j # col)
    /\ LET start_row == (row \div subgrid_size) * subgrid_size
           start_col == (col \div subgrid_size) * subgrid_size
       IN  \A i \in start_row .. start_row + subgrid_size - 1 :
             \A j \in start_col .. start_col + subgrid_size - 1 :
               ~(Cell(b, i, j) = num /\ <<i, j>> # <<row, col>>)

\* is_valid with the target cell not excluded from the row scan.
IsValidSelfConflict(b, row, col, num) ==
    /\ \A j \in 0 .. size - 1 : ~(Cell(b, row, j) = num)
    /\ \A i \in 0 .. size - 1 : ~(Cell(b, i, col) = num /\ i # row)
    /\ LET start_row == (row \div subgrid_size) * subgrid_size
           start_col == (col \div subgrid_size) * subgrid_size
       IN  \A i \in start_row .. start_row + subgrid_size - 1 :
             \A j \in start_col .. start_col + subgrid_size - 1 :
               ~(Cell(b, i, j) = num /\ <<i, j>> # <<row, col>>)

IsValid(b, row, col, num) ==
    /\ \A j \in 0 .. size - 1 : ~(Cell(b, row, j) = num /\ j # col)
    /\ \A i \in 0 .. size - 1 : ~(Cell(b, i, col) = num /\ i # row)
    /\ LET start_row == (row \div subgrid_size) * subgrid_size
           start_col == (col \div subgrid_size) * subgrid_size
       IN  \A i \in start_row .. start_row + subgrid_size - 1 :
             \A j \in start_col .. start_col + subgrid_size - 1 :
               ~(Cell(b, i, j) = num /\ <<i, j>> # <<row, col>>)

(***************************************************************************)
(* find_empty and find_best_empty                                          *)
(***************************************************************************)
NoCell == [row |-> 0 - 1, col |-> 0 - 1, possible |-> <<>>]

\* range(1, self.size + 1)
AllNums == [n \in 1 .. size |-> n]

\* The list `possible` built for cell (i, j): the valid numbers, ascending.
Possible(b, i, j) ==
    LET Ok(n) == IsValid(b, i, j, n) IN SelectSeq(AllNums, Ok)

RECURSIVE ScanEmpty(_, _)
ScanEmpty(b, k) ==
    IF k = size * size THEN NoCell
    ELSE IF Cell(b, k \div size, k % size) = 0
         THEN [row |-> k \div size, col |-> k % size, possible |-> AllNums]
         ELSE ScanEmpty(b, k + 1)

\* The first empty cell in row-major order; solve_simple then tries 1..size.
FindEmpty(b) == ScanEmpty(b, 0)

\* The scan of find_best_empty with `<=` for `<`: a later cell of equal
\* count replaces the earlier one.
RECURSIVE ScanBestLastTie(_, _, _, _)
ScanBestLastTie(b, k, best_cell, min_options) ==
    IF k = size * size THEN best_cell
    ELSE LET i == k \div size
             j == k % size
         IN  IF Cell(b, i, j) = 0
             THEN LET possible == Possible(b, i, j) IN
                  IF Len(possible) <= min_options
                  THEN IF Len(possible) = 1
                       THEN [row |-> i, col |-> j, possible |-> possible]
                       ELSE ScanBestLastTie(b, k + 1,
                                     [row |-> i, col |-> j, possible |-> possible],
                                     Len(possible))
                  ELSE ScanBestLastTie(b, k + 1, best_cell, min_options)
             ELSE ScanBestLastTie(b, k + 1, best_cell, min_options)

RECURSIVE ScanBest(_, _, _, _)
ScanBest(b, k, best_cell, min_options) ==
    IF k = size * size THEN best_cell
    ELSE LET i == k \div size
             j == k % size
         IN  IF Cell(b, i, j) = 0
             THEN LET possible == Possible(b, i, j) IN
                  IF Len(possible) < min_options
                  THEN IF Len(possible) = 1
                       THEN [row |-> i, col |-> j, possible |-> possible]
                       ELSE ScanBest(b, k + 1,
                                     [row |-> i, col |-> j, possible |-> possible],
                                     Len(possible))
                  ELSE ScanBest(b, k + 1, best_cell, min_options)
             ELSE ScanBest(b, k + 1, best_cell, min_options)

FindBestEmpty(b) == ScanBest(b, 0, NoCell, size + 1)

(***************************************************************************)
(* validate_board                                                          *)
(***************************************************************************)
NoVal == [ok |-> FALSE, kind |-> "none", row |-> 0 - 1, col |-> 0 - 1, num |-> 0]
ValidBoard == [ok |-> TRUE, kind |-> "valid", row |-> 0 - 1, col |-> 0 - 1, num |-> 0]
WrongDims == [ok |-> FALSE, kind |-> "dims", row |-> 0 - 1, col |-> 0 - 1, num |-> 0]
\* The range error with row and column exchanged in the report.
RangeErrorSwapped(i, j, num) ==
    [ok |-> FALSE, kind |-> "range", row |-> j, col |-> i, num |-> num]

RangeError(i, j, num) == [ok |-> FALSE, kind |-> "range", row |-> i, col |-> j, num |-> num]
ConflictError(i, j, num) == [ok |-> FALSE, kind |-> "conflict", row |-> i, col |-> j, num |-> num]

\* len(board) != self.size or any(len(row) != self.size for row in board)
BadDims(b) == Len(b) # size \/ \E r \in 1 .. Len(b) : Len(b[r]) # size

\* The early return taken with the cell still blanked.
RestoreForgotten(b, i, j, num) == b

\* board[i][j] = num before the early return with a conflict.
RestoreOnConflict(b, i, j, num) == SetCell(b, i, j, num)

\* board[i][j] = num after a cell passed its conflict check.
RestoreAfterCheck(b, i, j, num) == SetCell(b, i, j, num)

\* The range test with its lower limit left out.
InRangeUpperOnly(num) == num <= size

\* The value-range test of one cell.
InRange(num) == 0 <= num /\ num <= size

\* The double loop over the cells, from cell k on; the grid is threaded
\* through because each filled cell is blanked while it is checked.
RECURSIVE ValidateCells(_, _)
ValidateCells(b, k) ==
    IF k = size * size THEN [res |-> ValidBoard, board |-> b]
    ELSE LET i == k \div size
             j == k % size
             num == Cell(b, i, j)
         IN  IF ~InRange(num)
             THEN [res |-> RangeError(i, j, num), board |-> b]
             ELSE IF num # 0
                  THEN LET blanked == SetCell(b, i, j, 0) IN
                       IF ~IsValid(blanked, i, j, num)
                       THEN [res |-> ConflictError(i, j, num),
                             board |-> RestoreOnConflict(blanked, i, j, num)]
                       ELSE ValidateCells(RestoreAfterCheck(blanked, i, j, num), k + 1)
                  ELSE ValidateCells(b, k + 1)

\* validate_board: its return value and the grid it leaves behind.
ValidateBoard(b) ==
    IF BadDims(b) THEN [res |-> WrongDims, board |-> b] ELSE ValidateCells(b, 0)

(***************************************************************************)
(* The input grids                                                         *)
(***************************************************************************)
\* The 4x4 grid of run_test_cases.
Base4 ==
    << <<1, 0, 0, 0>>,
       <<0, 0, 3, 0>>,
       <<0, 2, 0, 0>>,
       <<0, 0, 0, 4>> >>

\* The completion of that grid (a full board, as in the "Already Solved" test).
Solved4 ==
    << <<1, 3, 4, 2>>,
       <<2, 4, 3, 1>>,
       <<4, 2, 1, 3>>,
       <<3, 1, 2, 4>> >>

Bases == {Base4, Solved4}

\* A base grid with one cell overwritten by any value, in range or not.
SingleEdits ==
    {SetCell(g, i, j, v) : g \in Bases, i \in 0 .. N - 1, j \in 0 .. N - 1, v \in Values}

\* A base grid with its first MaxWindow cells (row-major) overwritten freely.
RECURSIVE Overwrite(_, _)
Overwrite(S, k) ==
    IF k = MaxWindow THEN S
    ELSE Overwrite({SetCell(g, k \div N, k % N, v) : g \in S, v \in Values}, k + 1)

WindowEdits == Overwrite(Bases, 0)

SquareInputs == SingleEdits \cup WindowEdits

\* Grids of the wrong dimensions: a row too few or too many, a row too short
\* or too long.
Misshapen(g) ==
    {SubSeq(g, 1, N - 1), Append(g, g[1])}
        \cup {[g EXCEPT ![r] = SubSeq(@, 1, N - 1)] : r \in 1 .. N}
        \cup {[g EXCEPT ![r] = Append(@, 0)] : r \in 1 .. N}

\* A base grid with its first cell overwritten by any value.
CornerEdits == {SetCell(g, 0, 0, v) : g \in Bases, v \in Values}

Inputs == SquareInputs \cup UNION {Misshapen(g) : g \in CornerEdits}

\* The grids handed to a solver that has been used before: the test grid,
\* and the test grid with a conflict in its first row.
LaterInputs == {Base4, SetCell(Base4, 0, 1, 1)}

(***************************************************************************)
(* The state after SudokuSolver(N) and before any call                     *)
(***************************************************************************)
NoResult == [ok |-> FALSE, elapsed |-> 0 - 1, calls |-> 0 - 1]

Quiet ==
    /\ cmp = "none"
    /\ recursive_calls = 0
    /\ start_time = 0
    /\ time_limit_exceeded = FALSE
    /\ now = 0
    /\ use_mrv = TRUE
    /\ board = <<>>
    /\ stack = <<>>
    /\ ret = "none"
    /\ lastEntry = <<>>
    /\ abort = <<>>
    /\ result = NoResult
    /\ vres = NoVal
    /\ vgrid = <<>>

Init ==
    /\ pc = "idle"
    /\ size = N
    /\ subgrid_size = ISqrt(N)
    /\ timeout = Timeout
    /\ given \in Inputs
    /\ orig = given
    /\ Quiet

(***************************************************************************)
(* __init__: the constructor, from the state before any solver exists      *)
(***************************************************************************)
NoSolver ==
    /\ pc = "new"
    /\ size = 0
    /\ subgrid_size = 0
    /\ timeout = 0
    /\ given = <<>>
    /\ orig = <<>>
    /\ Quiet

Construct(s) ==
    /\ pc = "new"
    /\ pc' = "idle"
    /\ size' = s
    /\ subgrid_size' = ISqrt(s)
    /\ recursive_calls' = 0
    /\ start_time' = 0
    /\ timeout' = Timeout
    /\ time_limit_exceeded' = FALSE
    /\ UNCHANGED <<cmp, now, given, orig, use_mrv, board, stack, ret, lastEntry, abort,
                   result, vres, vgrid>>

(***************************************************************************)
(* validate_board called by the owner of the grid, before or after a solve *)
(***************************************************************************)
ValidateCall ==
    /\ pc \in {"idle", "done"}
    /\ LET v == ValidateBoard(orig) IN
         /\ orig' = v.board
         /\ vres' = v.res
    /\ vgrid' = orig
    /\ UNCHANGED <<pc, size, subgrid_size, recursive_calls, start_time,
                   time_limit_exceeded, timeout, cmp, now, given, use_mrv, board, stack,
                   ret, lastEntry, abort, result>>

(***************************************************************************)
(* measure_performance, first part: reset, copy, validate, start search    *)
(***************************************************************************)
\* The body of measure_performance(g, mrv) up to its early return or its
\* call of the search; `back` is where an early return leads.
Measure(g, mrv, back) ==
    /\ use_mrv' = mrv
    /\ recursive_calls' = 0
    /\ start_time' = now
    /\ time_limit_exceeded' = FALSE
    /\ orig' = g
    /\ LET v == ValidateBoard(g) IN
         /\ vres' = v.res
         /\ vgrid' = g
         /\ board' = v.board
         /\ IF ~v.res.ok
            THEN /\ pc' = back
                 /\ result' = [ok |-> FALSE, elapsed |-> 0, calls |-> 0]
                 /\ ret' = "none"
            ELSE /\ pc' = "search"
                 /\ result' = NoResult
                 /\ ret' = "call"
    /\ stack' = <<>>
    /\ lastEntry' = <<>>
    /\ abort' = <<>>
    /\ UNCHANGED <<size, subgrid_size, now>>

\* The grids a caller hands over: the grid it holds when the solver is
\* fresh, one of the later grids once the solver has been used.
Handed == IF pc = "idle" THEN {orig} ELSE LaterInputs

\* A call by the owner of the solver: before any solve or after one.
MeasurePerformance(g, mrv) ==
    /\ pc \in {"idle", "done"}
    /\ now <= MaxClock
    /\ given' = g
    /\ Measure(g, mrv, "done")
    /\ UNCHANGED <<timeout, cmp>>

\* solver.timeout = t, by the owner of the solver.
SetTimeout(t) ==
    /\ pc \in {"idle", "done"}
    /\ timeout' = t
    /\ UNCHANGED <<pc, size, subgrid_size, recursive_calls, start_time,
                   time_limit_exceeded, cmp, now, given, orig, use_mrv, board, stack,
                   ret, lastEntry, abort, result, vres, vgrid>>

(***************************************************************************)
(* solve_with_mrv / solve_simple                                           *)
(***************************************************************************)
\* A later reading of the clock: it never runs backwards.  Readings past
\* the deadline are all alike, so the first one past it stands for them.
ClockReads == now .. Min(now + timeout + 1, start_time + timeout + 1)

\* The deadline honoured only until it has been flagged once.
ExpiredOnce(t) == t - start_time > timeout /\ ~time_limit_exceeded

\* time.time() - self.start_time > self.timeout
Expired(t) == t - start_time > timeout

\* The selector of the strategy in use.
Select(b) == IF use_mrv THEN FindBestEmpty(b) ELSE FindEmpty(b)

\* No reset of the cell after a failed recursive call.
BacktrackKeep(b, row, col) == b

\* No reset once the deadline has been flagged (the abort left in place).
BacktrackUnlessAborted(b, row, col) ==
    IF time_limit_exceeded THEN b ELSE SetCell(b, row, col, 0)

\* The reset with row and column exchanged.
BacktrackTransposed(b, row, col) == SetCell(b, col, row, 0)

\* board[row][col] = 0 after a failed recursive call.
Backtrack(b, row, col) == SetCell(b, row, col, 0)

\* The guard of a trial inside the loop: self.is_valid(board, row, col, num).
TrialOk(b, row, col, num) == IsValid(b, row, col, num)

\* The loop given up after its first trial.
NextTrialFirstOnly(b, f, from) ==
    IF from = 1 /\ Len(f.cands) >= 1 /\ IsValid(b, f.row, f.col, f.cands[1])
    THEN 1 ELSE 0

\* The position in f.cands of the next candidate, from position `from` on,
\* that passes the validity check; 0 when the loop runs out.
NextTrial(b, f, from) ==
    LET ok == {p \in from .. Len(f.cands) : TrialOk(b, f.row, f.col, f.cands[p])}
    IN  IF ok = {} THEN 0 ELSE CHOOSE p \in ok : \A q \in ok : p <= q

\* The for loop of invocation f from position `from` on, with grid b and
\* the enclosing invocations `rest`: either the next valid candidate is
\* assigned and the recursive call is made, or the loop ends and the
\* invocation returns False.
Trials(b, f, from, rest) ==
    LET p == NextTrial(b, f, from) IN
    IF p = 0
    THEN /\ board' = b
         /\ stack' = rest
         /\ ret' = "false"
         /\ lastEntry' = f.entry
    ELSE /\ board' = SetCell(b, f.row, f.col, f.cands[p])
         /\ stack' = Append(rest, [f EXCEPT !.idx = p])
         /\ ret' = "call"
         /\ lastEntry' = lastEntry

\* Entry of an invocation: deadline check, counter, selection, and the loop
\* up to its first recursive call (or its return).
Enter ==
    /\ pc = "search"
    /\ ret = "call"
    /\ \E t \in ClockReads :
         /\ now' = t
         /\ IF Expired(t)
            THEN /\ time_limit_exceeded' = TRUE
                 /\ ret' = "false"
                 /\ lastEntry' = board
                 /\ abort' = IF time_limit_exceeded THEN abort ELSE board
                 /\ UNCHANGED <<recursive_calls, board, stack>>
            ELSE /\ recursive_calls' = recursive_calls + 1
                 /\ UNCHANGED <<time_limit_exceeded, abort>>
                 /\ LET sel == Select(board) IN
                      IF sel = NoCell
                      THEN /\ ret' = "true"
                           /\ lastEntry' = board
                           /\ UNCHANGED <<board, stack>>
                      ELSE Trials(board,
                                  [row |-> sel.row, col |-> sel.col,
                                   cands |-> sel.possible, idx |-> 0,
                                   entry |-> board],
                                  1, stack)
    /\ UNCHANGED <<pc, size, subgrid_size, start_time, timeout, cmp, given, orig,
                   use_mrv, result, vres, vgrid>>

\* A recursive call has returned to the invocation on top of the stack.
Resume ==
    /\ pc = "search"
    /\ ret \in {"true", "false"}
    /\ stack # <<>>
    /\ LET f == stack[Len(stack)]
           rest == SubSeq(stack, 1, Len(stack) - 1)
       IN  IF ret = "true"
           THEN /\ ret' = "true"
                /\ stack' = rest
                /\ lastEntry' = f.entry
                /\ board' = board
           ELSE Trials(Backtrack(board, f.row, f.col), f, f.idx + 1, rest)
    /\ UNCHANGED <<pc, size, subgrid_size, recursive_calls, start_time,
                   time_limit_exceeded, timeout, cmp, now, given, orig, use_mrv, abort,
                   result, vres, vgrid>>

(***************************************************************************)
(* measure_performance, second part: the top-level call has returned       *)
(***************************************************************************)
\* The copy of the solution back into the caller's grid.
CopyBack(won, caller, copy) == IF won THEN copy ELSE caller

Finish ==
    /\ pc = "search"
    /\ ret \in {"true", "false"}
    /\ stack = <<>>
    /\ \E end_time \in ClockReads :
         /\ now' = end_time
         /\ result' = [ok |-> ret = "true", elapsed |-> end_time - start_time,
                       calls |-> recursive_calls]
    /\ orig' = CopyBack(ret = "true", orig, board)
    /\ pc' = IF cmp = "none" THEN "done" ELSE "compare"
    /\ UNCHANGED <<size, subgrid_size, recursive_calls, start_time,
                   time_limit_exceeded, timeout, cmp, given, use_mrv, board, stack, ret,
                   lastEntry, abort, vres, vgrid>>

(***************************************************************************)
(* compare_algorithms                                                      *)
(***************************************************************************)
\* Entry: the longer deadline, and the MRV solve of a copy of the grid.
CompareAlgorithms(g) ==
    /\ pc \in {"idle", "done"}
    /\ now <= MaxClock
    /\ given' = g
    /\ timeout' = CompareTimeout
    /\ cmp' = "first"
    /\ Measure(g, TRUE, "compare")

\* The first solve has returned: the flag is cleared and a second copy of
\* the grid is solved by simple backtracking.
CompareNext ==
    /\ pc = "compare"
    /\ cmp = "first"
    /\ cmp' = "second"
    /\ Measure(given, FALSE, "compare")
    /\ UNCHANGED <<timeout, given>>

\* The second solve has returned: the default deadline is put back and the
\* method returns nothing, its copies dropped, the caller's grid as it was.
CompareEnd ==
    /\ pc = "compare"
    /\ cmp = "second"
    /\ timeout' = Timeout
    /\ cmp' = "none"
    /\ pc' = "idle"
    /\ orig' = given
    /\ board' = <<>>
    /\ ret' = "none"
    /\ result' = NoResult
    /\ lastEntry' = <<>>
    /\ abort' = <<>>
    /\ UNCHANGED <<size, subgrid_size, recursive_calls, start_time,
                   time_limit_exceeded, now, given, use_mrv, stack, vres, vgrid>>

Next ==
    \/ \E g \in Handed, mrv \in BOOLEAN : MeasurePerformance(g, mrv)
    \/ Enter
    \/ Resume
    \/ Finish
    \/ ValidateCall
    \/ \E t \in {Timeout, CompareTimeout} : SetTimeout(t)
    \/ \E g \in LaterInputs : CompareAlgorithms(g)
    \/ CompareNext
    \/ CompareEnd

Spec == Init /\ [][Next]_vars

\* The constructor alone, over the sizes a caller may pass.
NextConfig == \E s \in 1 .. MaxSize : Construct(s)

SpecConfig == NoSolver /\ [][NextConfig]_vars

(***************************************************************************)
(* What the properties speak of, stated without the code's procedures      *)
(***************************************************************************)
Idx == 0 .. size - 1

\* Two distinct cells of one row, one column or one box.
SameUnit(i, j, i2, j2) ==
    /\ <<i, j>> # <<i2, j2>>
    /\ \/ i = i2
       \/ j = j2
       \/ /\ i \div subgrid_size = i2 \div subgrid_size
          /\ j \div subgrid_size = j2 \div subgrid_size

ProperShape(b) == Len(b) = size /\ \A r \in 1 .. size : Len(b[r]) = size

AllInRange(b) == \A i \in Idx, j \in Idx : Cell(b, i, j) \in 0 .. size

\* Cell (i, j) holds a nonzero value that a cell of one of its units holds too.
TakesPart(b, i, j) ==
    /\ Cell(b, i, j) # 0
    /\ \E i2 \in Idx, j2 \in Idx :
         SameUnit(i, j, i2, j2) /\ Cell(b, i2, j2) = Cell(b, i, j)

WellFormed(b) ==
    /\ ProperShape(b)
    /\ AllInRange(b)
    /\ \A i \in Idx, j \in Idx : ~TakesPart(b, i, j)

Filled(b) == \A i \in Idx, j \in Idx : Cell(b, i, j) \in 1 .. size

\* The complete conflict-free N x N grids, grown row by row.
Perms == {p \in [1 .. N -> 1 .. N] : \A a \in 1 .. N, c \in 1 .. N : a # c => p[a] # p[c]}

Fits(g, p) ==
    \A r \in 1 .. Len(g), c \in 1 .. N, c2 \in 1 .. N :
        (\/ c = c2
         \/ /\ (r - 1) \div ISqrt(N) = Len(g) \div ISqrt(N)
            /\ (c - 1) \div ISqrt(N) = (c2 - 1) \div ISqrt(N))
        => g[r][c] # p[c2]

RECURSIVE Grow(_, _)
Grow(S, r) ==
    IF r = N THEN S
    ELSE Grow({Append(x[1], x[2]) : x \in {y \in S \X Perms : Fits(y[1], y[2])}}, r + 1)

AllSolved == Grow({<<>>}, 0)

\* Grid b can be completed: some complete conflict-free grid agrees with
\* every filled cell of b.
HasCompletion(b) ==
    \E s \in AllSolved :
        \A i \in 0 .. N - 1, j \in 0 .. N - 1 :
            Cell(b, i, j) # 0 => Cell(s, i, j) = Cell(b, i, j)

\* measure_performance has returned, to its caller or to compare_algorithms.
Returned == pc \in {"done", "compare"}

(***************************************************************************)
(* Properties                                                              *)
(***************************************************************************)
\* C1 -- Soundness of solve: when measure_performance returns success (with
\* either strategy), the caller's grid has every cell filled with a value in
\* 1..N, no two cells of one row, column or box hold equal values, and
\* validate_board on that grid reports valid.
SolveSound ==
    (Returned /\ result.ok) =>
        /\ ProperShape(orig)
        /\ Filled(orig)
        /\ \A i \in Idx, j \in Idx : ~TakesPart(orig, i, j)
        /\ ValidateBoard(orig).res = ValidBoard

\* A successful solve that had to fill cells, after some backtracking.
SolveSoundWitness ==
    /\ pc = "done"
    /\ result.ok
    /\ orig # given
    /\ ~use_mrv
    /\ result.calls > Cardinality({c \in Idx \X Idx : Cell(given, c[1], c[2]) = 0}) + 1

\* C2 -- Completeness and strategy agreement: on a grid that passes
\* validate_board, when the deadline is never seen exceeded, the search of
\* either strategy returns solved exactly if the grid has a conflict-free
\* completion and exhausted otherwise, so both strategies give one outcome.
SolveComplete ==
    (Returned /\ ValidateBoard(given).res.ok /\ ~time_limit_exceeded) =>
        result.ok = HasCompletion(given)

\* The MRV search has exhausted a valid grid that has no completion.
SolveCompleteWitness ==
    /\ pc = "done"
    /\ ValidateBoard(given).res.ok
    /\ ~time_limit_exceeded
    /\ use_mrv
    /\ ~result.ok
    /\ result.calls > 3
    /\ ~HasCompletion(given)

\* C3 -- Full backtrack on exhaustion: whenever an invocation of the search,
\* at any depth, returns exhausted, the grid equals the grid at the entry of
\* that invocation; after a solve that ends exhausted, the working grid and
\* the caller's grid equal the validated input.
FullBacktrack ==
    /\ (pc = "search" /\ ret = "false" /\ ~time_limit_exceeded) => board = lastEntry
    /\ (Returned /\ ret = "false" /\ ~time_limit_exceeded) =>
           (board = given /\ orig = given)

\* A nested invocation has returned exhausted after trying candidates below
\* it, with the grid back at its entry state.
FullBacktrackWitness ==
    /\ pc = "search"
    /\ ret = "false"
    /\ ~time_limit_exceeded
    /\ Len(stack) >= 2
    /\ lastEntry # given
    /\ recursive_calls > Len(stack) + 2

\* The deadline has been seen exceeded by some invocation of this solve.
DeadlineSeen == abort # <<>>

\* C4 (as claimed) -- Timed-out is not rolled back: the cells assigned on the
\* recursion path that was active when the deadline was found exceeded still
\* hold their values when the top-level call returns timed-out, and solve
\* hands the caller that partially filled grid.
TimedOutKeepsPath ==
    /\ (pc = "search" /\ stack = <<>> /\ ret = "false" /\ time_limit_exceeded) =>
           board = abort
    /\ (Returned /\ time_limit_exceeded) => orig = abort

\* C4 (amended) -- Timed-out is rolled back like any failure: every
\* invocation that returns after the deadline was found exceeded leaves the
\* grid as it was at its entry, so when the top-level call returns timed-out
\* the working grid equals the validated input, and solve leaves the
\* caller's grid unchanged.
TimedOutRolledBack ==
    /\ (pc = "search" /\ ret = "false" /\ time_limit_exceeded) => board = lastEntry
    /\ (pc = "search" /\ stack = <<>> /\ ret = "false" /\ time_limit_exceeded) =>
           board = given
    /\ (Returned /\ time_limit_exceeded) => (board = given /\ orig = given)

\* A solve has ended timed-out although cells were assigned on the active
\* path when the deadline was found exceeded.
TimedOutRolledBackWitness ==
    /\ pc = "done"
    /\ time_limit_exceeded
    /\ abort # given
    /\ \E i \in Idx, j \in Idx : Cell(abort, i, j) # 0 /\ Cell(given, i, j) = 0

\* C5 -- Outcomes are mutually exclusive and distinguishable (the clock never
\* runs backwards): success is never returned with time_limit_exceeded set,
\* neither by a nested invocation nor by solve, so exactly one of solved,
\* exhausted and timed-out holds after a solve; and a failure with the flag
\* clear occurs only if no invocation saw the deadline exceeded.
OutcomesExclusive ==
    /\ (pc = "search" /\ ret = "true") => ~time_limit_exceeded
    /\ Returned =>
           /\ ~(result.ok /\ time_limit_exceeded)
           /\ Cardinality({o \in {"solved", "exhausted", "timed-out"} :
                  \/ o = "solved" /\ result.ok /\ ~time_limit_exceeded
                  \/ o = "exhausted" /\ ~result.ok /\ ~time_limit_exceeded
                  \/ o = "timed-out" /\ ~result.ok /\ time_limit_exceeded}) = 1
           /\ (~result.ok /\ ~time_limit_exceeded) => ~DeadlineSeen
           /\ time_limit_exceeded = DeadlineSeen

\* A solve of a grid that has a completion has ended timed-out, after the
\* search had begun.
OutcomesExclusiveWitness ==
    /\ pc = "done"
    /\ ~result.ok
    /\ time_limit_exceeded
    /\ result.calls > 1
    /\ ValidateBoard(given).res.ok
    /\ HasCompletion(given)

\* C6 -- Search refuses an invalid grid: when measure_performance is given a
\* grid that fails validate_board (equally: a grid that is not well-formed),
\* no invocation of the search is made (the call count stays 0), failure is
\* returned, and the caller's grid is left unchanged.
RefusesInvalid ==
    (pc # "idle" /\ (~ValidateBoard(given).res.ok \/ ~WellFormed(given))) =>
        /\ Returned
        /\ recursive_calls = 0
        /\ stack = <<>>
        /\ ret = "none"
        /\ result = [ok |-> FALSE, elapsed |-> 0, calls |-> 0]
        /\ ~time_limit_exceeded
        /\ orig = given

\* measure_performance has returned on a grid with a conflict.
RefusesInvalidWitness ==
    /\ pc = "done"
    /\ ValidateBoard(given).res.kind = "conflict"
    /\ result.calls = 0
    /\ ~result.ok

\* Two cells of one column hold the same nonzero value.
HasColumnDup(b) ==
    \E i \in Idx, i2 \in Idx, j \in Idx :
        i # i2 /\ Cell(b, i, j) # 0 /\ Cell(b, i, j) = Cell(b, i2, j)

\* Cell (i, j) is one of two cells of its column with the same nonzero value.
InColumnDup(b, i, j) ==
    Cell(b, i, j) # 0 /\ \E i2 \in Idx : i2 # i /\ Cell(b, i2, j) = Cell(b, i, j)

\* Every duplication of the grid is one inside a column.
OnlyColumnDups(b) ==
    \A i \in Idx, j \in Idx, i2 \in Idx, j2 \in Idx :
        (SameUnit(i, j, i2, j2) /\ Cell(b, i, j) # 0 /\ Cell(b, i, j) = Cell(b, i2, j2))
            => j = j2

\* C7 -- validate_board decides well-formedness exactly: it reports valid
\* exactly if the grid has N rows of N cells, every value is in 0..N, and
\* any two distinct cells of one row, column or box differ or one is 0.  A
\* grid of the right shape and value range with a nonzero value duplicated in
\* a column is rejected with a Conflict naming a cell, with its value, that
\* takes part in a duplication; it is a cell of the duplicated column value
\* when the grid has no other duplication.
ValidateExact ==
    vres # NoVal =>
        /\ vres.ok = WellFormed(vgrid)
        /\ vres.ok = (vres.kind = "valid")
        /\ (ProperShape(vgrid) /\ AllInRange(vgrid) /\ HasColumnDup(vgrid)) =>
               /\ vres.kind = "conflict"
               /\ vres.row \in Idx /\ vres.col \in Idx
               /\ Cell(vgrid, vres.row, vres.col) = vres.num
               /\ TakesPart(vgrid, vres.row, vres.col)
               /\ OnlyColumnDups(vgrid) => InColumnDup(vgrid, vres.row, vres.col)

\* validate_board has rejected a grid whose only fault is a value duplicated
\* in its last column.
ValidateExactWitness ==
    /\ vres.kind = "conflict"
    /\ ProperShape(vgrid) /\ AllInRange(vgrid)
    /\ OnlyColumnDups(vgrid)
    /\ vres.col = size - 1
    /\ InColumnDup(vgrid, vres.row, vres.col)

\* C8 -- validate_board never changes the grid: after every call, valid or
\* not (the early return with a Conflict included), the grid is cell for cell
\* the grid before the call; and a call that follows a call on the same grid
\* gives the same result.
ValidateKeepsGrid ==
    [][ValidateCall =>
          /\ orig' = orig
          /\ (vres # NoVal /\ vgrid = orig) => vres' = vres]_vars

\* validate_board has returned early with a Conflict, found while the cell
\* was blanked, and the caller's grid is the grid handed in.
ValidateKeepsGridWitness ==
    /\ pc = "idle"
    /\ vres.kind = "conflict"
    /\ vgrid = given
    /\ orig = given

\* The cells (row-major numbers) that are out of range or duplicated.
Offending(b) ==
    {k \in 0 .. size * size - 1 :
        \/ Cell(b, k \div size, k % size) \notin 0 .. size
        \/ TakesPart(b, k \div size, k % size)}

\* C9 (as claimed) -- Error precedence: wrong dimensions are reported in
\* preference to a value out of range, and a value out of range in preference
\* to any conflict; a Conflict is never reported for a grid in which some
\* cell is out of range.
ErrorPrecedence ==
    vres # NoVal =>
        /\ ~ProperShape(vgrid) => vres.kind = "dims"
        /\ (ProperShape(vgrid) /\ ~AllInRange(vgrid)) => vres.kind = "range"

\* C9 (amended) -- Wrong dimensions are reported in preference to any other
\* error.  Otherwise the error reported is that of the first offending cell
\* in row-major order: a range error if its value is outside 0..N, else a
\* Conflict.  So a Conflict is reported for a grid holding an out-of-range
\* value exactly when a conflicting cell comes before every such cell.
ErrorPrecedenceByCell ==
    vres # NoVal =>
        /\ ~ProperShape(vgrid) => vres.kind = "dims"
        /\ ProperShape(vgrid) =>
               IF Offending(vgrid) = {}
               THEN vres.kind = "valid"
               ELSE LET k == CHOOSE x \in Offending(vgrid) :
                                 \A y \in Offending(vgrid) : x <= y
                        num == Cell(vgrid, k \div size, k % size)
                    IN  vres = [ok |-> FALSE,
                                kind |-> IF num \in 0 .. size THEN "conflict" ELSE "range",
                                row |-> k \div size, col |-> k % size, num |-> num]

\* A Conflict has been reported for a grid that also holds a value out of
\* range, in a later cell.
ErrorPrecedenceByCellWitness ==
    /\ vres.kind = "conflict"
    /\ ProperShape(vgrid)
    /\ ~AllInRange(vgrid)

\* C10 -- Configuration rejects non-square sizes: no solver exists whose box
\* size B does not satisfy B * B = N.
OnlySquareSizes == pc # "new" => subgrid_size * subgrid_size = size

\* Value v occurs in a cell other than (i, j) of the row, the column or the
\* box of (i, j).
OccursElsewhere(b, i, j, v) ==
    \E i2 \in Idx, j2 \in Idx : SameUnit(i, j, i2, j2) /\ Cell(b, i2, j2) = v

\* The grids is_valid is handed: the caller's grid under validate_board, and
\* the working grid as each invocation of the search finds it.
CheckedGrids ==
    (IF pc = "idle" /\ ProperShape(orig) THEN {orig} ELSE {})
        \cup (IF pc = "search" /\ ret = "call" THEN {board} ELSE {})

\* C11 -- is_valid, for every cell address in range and every value in 1..N,
\* returns false exactly if the value occurs in another cell of the same row,
\* column or box; what the target cell itself holds never makes it false.
\* (is_valid has no assignment to the grid: it is a function of the grid.)
IsValidExact ==
    \A b \in CheckedGrids :
        \A i \in Idx, j \in Idx, v \in 1 .. size :
            IsValid(b, i, j, v) = ~OccursElsewhere(b, i, j, v)

\* is_valid accepts, for a filled cell of the working grid, the very value
\* the cell holds, and rejects that value for another cell of its row.
IsValidExactWitness ==
    /\ pc = "search"
    /\ ret = "call"
    /\ \E i \in Idx, j \in Idx, j2 \in Idx :
         /\ j2 # j
         /\ Cell(board, i, j) \in 1 .. size
         /\ Cell(given, i, j) = 0
         /\ IsValid(board, i, j, Cell(board, i, j))
         /\ ~IsValid(board, i, j2, Cell(board, i, j))

\* The empty cells of a grid, by row-major number.
Empties(b) == {k \in 0 .. size * size - 1 : Cell(b, k \div size, k % size) = 0}

\* The candidate set of cell k: the values that occur in no other cell of
\* its row, column or box.
Cands(b, k) == {v \in 1 .. size : ~OccursElsewhere(b, k \div size, k % size, v)}

Least(S) == CHOOSE x \in S : \A y \in S : x <= y

\* The grids find_best_empty is handed: the working grid as each invocation
\* of the MRV search finds it.
SelectorGrids == IF pc = "search" /\ ret = "call" /\ use_mrv THEN {board} ELSE {}

\* Record r names cell k of b with the candidates of k in ascending order.
NamesCell(r, b, k) ==
    /\ r.row = k \div size
    /\ r.col = k % size
    /\ Len(r.possible) = Cardinality(Cands(b, k))
    /\ \A n \in 1 .. Len(r.possible) : r.possible[n] \in Cands(b, k)
    /\ \A n \in 1 .. Len(r.possible) - 1 : r.possible[n] < r.possible[n + 1]

\* C12 (as claimed) -- MRV selection: find_best_empty returns none exactly
\* if no cell is empty; otherwise, whenever some empty cell has candidates,
\* it returns the first cell (row-major) of smallest nonzero candidate count
\* among all empty cells, and a cell returned by the singleton short-circuit
\* has the minimum count over all empty cells.
MrvSmallestNonzero ==
    \A b \in SelectorGrids :
        LET r == FindBestEmpty(b)
            some == {k \in Empties(b) : Cands(b, k) # {}}
        IN  /\ (r = NoCell) = (Empties(b) = {})
            /\ some # {} =>
                   LET m == Least({Cardinality(Cands(b, k)) : k \in some})
                   IN  NamesCell(r, b, Least({k \in some : Cardinality(Cands(b, k)) = m}))
            /\ (r # NoCell /\ Len(r.possible) = 1) =>
                   \A k \in Empties(b) : Cardinality(Cands(b, k)) >= 1

\* C12 (amended) -- find_best_empty returns none exactly if no cell is
\* empty.  Otherwise it returns an empty cell with its candidates in
\* ascending order, counting a cell without candidates like any other: if
\* the first empty cell (row-major) with at most one candidate has exactly
\* one, that cell (the singleton short-circuit, taken without looking at the
\* cells after it); else the first cell of smallest candidate count, zero
\* included.
MrvFewestOrSingleton ==
    \A b \in SelectorGrids :
        LET r == FindBestEmpty(b)
            few == {k \in Empties(b) : Cardinality(Cands(b, k)) <= 1}
        IN  IF Empties(b) = {}
            THEN r = [row |-> 0 - 1, col |-> 0 - 1, possible |-> <<>>]
            ELSE IF few # {} /\ Cardinality(Cands(b, Least(few))) = 1
                 THEN NamesCell(r, b, Least(few))
                 ELSE LET m == Least({Cardinality(Cands(b, k)) : k \in Empties(b)})
                      IN  NamesCell(r, b,
                                    Least({k \in Empties(b) : Cardinality(Cands(b, k)) = m}))

\* The MRV search stands before a grid in which a cell without candidates
\* comes first although other empty cells have candidates: find_best_empty
\* returns that cell, with an empty candidate list.
MrvFewestOrSingletonWitness ==
    /\ pc = "search"
    /\ ret = "call"
    /\ use_mrv
    /\ FindBestEmpty(board) # NoCell
    /\ FindBestEmpty(board).possible = <<>>
    /\ \E k \in Empties(board) : Cardinality(Cands(board, k)) >= 2

\* The singleton short-circuit returns a cell although a later empty cell
\* has no candidate at all.
SingletonBeforeDeadCell ==
    /\ pc = "search"
    /\ ret = "call"
    /\ use_mrv
    /\ Len(FindBestEmpty(board).possible) = 1
    /\ \E k \in Empties(board) : Cands(board, k) = {}

\* C13 (as claimed) -- Timed-out propagates at once: after a recursive call
\* has returned timed-out no further candidate is tried (no cell is reset or
\* assigned, no further recursive call is made); every enclosing invocation
\* just returns timed-out.
TimedOutPropagatesAtOnce ==
    (pc = "search" /\ time_limit_exceeded) => (ret = "false" /\ board = abort)

\* C13 (amended) -- After a recursive call has returned because the deadline
\* was exceeded, the calling invocation resets its cell and goes on through
\* its remaining candidates; each recursive call it then makes fails at once,
\* before the call counter and before any selection, leaving grid and stack
\* as they are; the recursion never gets deeper again, no invocation returns
\* success, the flag stays set, and every enclosing invocation ends the same
\* way, with failure.
TimedOutUnwinds ==
    [][(pc = "search" /\ time_limit_exceeded) =>
          /\ time_limit_exceeded'
          /\ recursive_calls' = recursive_calls
          /\ ret' # "true"
          /\ Len(stack') <= Len(stack)
          /\ ret = "call" => (ret' = "false" /\ board' = board /\ stack' = stack)
          /\ (ret = "false" /\ stack # <<>>) =>
                LET f == stack[Len(stack)] IN
                  \/ /\ ret' = "false"
                     /\ Len(stack') = Len(stack) - 1
                     /\ Cell(board', f.row, f.col) = 0
                  \/ /\ ret' = "call"
                     /\ Len(stack') = Len(stack)
                     /\ \E p \in f.idx + 1 .. Len(f.cands) :
                          Cell(board', f.row, f.col) = f.cands[p]]_vars

\* After the deadline was flagged, an invocation has tried a further
\* candidate: the cell is assigned and a recursive call is pending.
TimedOutUnwindsWitness ==
    /\ pc = "search"
    /\ time_limit_exceeded
    /\ ret = "call"
    /\ Len(stack) >= 2
    /\ board # abort

\* Grid b holds, in every cell that is filled in grid g, the value of g.
KeepsGivens(b, g) ==
    \A i \in Idx, j \in Idx : Cell(g, i, j) # 0 => Cell(b, i, j) = Cell(g, i, j)

\* C14 -- Givens are never modified: in every state of a search, with either
\* strategy, and in the grid measure_performance hands back, whatever the
\* outcome, every cell that is nonzero in the input holds its input value;
\* a step of the search writes only to cells that are empty in the input.
GivensKept ==
    /\ pc = "search" => KeepsGivens(board, given)
    /\ Returned =>
           IF ProperShape(given) THEN KeepsGivens(orig, given) ELSE orig = given
    /\ (Returned /\ ret # "none") => KeepsGivens(board, given)

\* The search has assigned cells and backtracked in a grid that has givens,
\* and stands with a failed invocation behind it.
GivensKeptWitness ==
    /\ pc = "search"
    /\ ret = "false"
    /\ stack # <<>>
    /\ recursive_calls > 3
    /\ board # given
    /\ Cardinality({c \in Idx \X Idx : Cell(given, c[1], c[2]) # 0}) >= 4

====
